---- MODULE Spec2Model ----
(***************************************************************************)
(* A model of the SIM800 driver (src/src/sim800.h: the header and the      *)
(* sim800.c translation unit it is shipped with).                          *)
(*                                                                         *)
(* C strings are sequences of one-character strings, without the end       *)
(* marker.  A character buffer is modelled by the string it holds (the     *)
(* bytes before its first NUL); a buffer holding as many characters as its *)
(* capacity holds no end marker at all.                                    *)
(***************************************************************************)
EXTENDS Integers, Sequences, FiniteSets, TLC

VARIABLES
    handle,     \* SIM800_Handle_t sim800h
    notifIndex, \* static uint32_t index of SIM800_ManageSMSNotifications
    env,        \* what the driver does to the world around the handle
    wire,       \* the line the modem is transmitting, and how much of it arrived
    modem,      \* the modem: commands it accepted, reply lines still to send
    main,       \* the caller context (thread mode): its position and locals
    tick,       \* HAL_GetTick()
    cfg         \* the build, the application and the modem the driver runs with

vars == <<handle, notifIndex, env, wire, modem, main, tick, cfg>>

---------------------------------------------------------------------------
(* Program constants *)

SIM800_MAX_DELAY == 32000
CODE_MAX_LENGTH == 10
RECEIVE_DATA_MAX_LENGTH == 100
RX_BUFFER_LENGTH == 100
EXPECTED_CODES_MAX_COUNT == 10
SMS_SENDER_MAX_LEN == 20
SMS_TEXT_MAX_LEN == 100
AddFailed == 255
NoNotifIndex == 65535
INT32_MAX == 2147483647

\* SIM800_Status_t
SIM800_OK == 0
SIM800_ERROR == 1
SIM800_TIMEOUT == 2

SIM800_DoesntExpects == "SIM800_DoesntExpects"
SIM800_WaitingFor == "SIM800_WaitingFor"
SIM800_Received == "SIM800_Received"
SIM800_ReceivedSecondPart == "SIM800_ReceivedSecondPart"
SIM800_ReceivedStatus == "SIM800_ReceivedStatus"

SIM800_DoesntReceive == "SIM800_DoesntReceive"
SIM800_Receives == "SIM800_Receives"

NULL == "NULL"
CMTI_HANDLER == "cmti_handler"
CMGR_HANDLER == "cmgr_handler"

---------------------------------------------------------------------------
(* Bounds of the model *)

\* longest run of filler bytes the modem puts in one line
MaxFill == 101
\* unsolicited +CMTI notifications the modem sends in one run
MaxNotifications == 2
\* commands the caller context issues in one run
MaxCalls == 1
\* lines of filler the modem sends in one run
MaxNoise == 2
\* longest text of a message the modem stores
MaxSmsText == 41
\* steps of the tick counter during one wait
MaxTicks == 3
\* SIM800_RequestSMSMessage calls of the caller context in one run
MaxRequests == 1
\* releases of a slot that is Free already in one run
MaxStray == 1
\* the calls of the caller context in a run with SIM800_ManageSMSNotifications
MaxManage == 3

---------------------------------------------------------------------------
(* Characters and the C string functions the driver uses *)

LF == "\n"
CR == "\r"

Min(a, b) == IF a < b THEN a ELSE b

\* F(v), with v evaluated once
Bind(v, F(_)) == CHOOSE r \in {F(x) : x \in {v}} : TRUE

Take(s, n) == SubSeq(s, 1, Min(n, Len(s)))

Drop(s, n) == SubSeq(s, n + 1, Len(s))

\* strncmp(s, t, n) == 0
StrNEq(s, t, n) == Take(s, n) = Take(t, n)

\* strchr(s + from - 1, c): the position (from 1) of the first c at or after
\* position from, 0 for NULL
StrChr(s, from, c) ==
    LET hits == {i \in from..Len(s) : s[i] = c}
    IN IF hits = {} THEN 0 ELSE CHOOSE i \in hits : \A j \in hits : i <= j

\* strstr(s, t) != NULL
StrStr(s, t) ==
    \E i \in 1..(Len(s) - Len(t) + 1) : SubSeq(s, i, i + Len(t) - 1) = t

Digits == <<"0", "1", "2", "3", "4", "5", "6", "7", "8", "9">>

IsDigit(c) == \E d \in 1..10 : Digits[d] = c

DigitVal(c) == (CHOOSE d \in 1..10 : Digits[d] = c) - 1

IsSpace(c) == c \in {" ", "\t", LF, CR}

RECURSIVE SkipSpace(_, _)
SkipSpace(s, from) ==
    IF from <= Len(s) /\ IsSpace(s[from]) THEN SkipSpace(s, from + 1) ELSE from

RECURSIVE ParseDigits(_, _, _)
ParseDigits(s, from, acc) ==
    IF from <= Len(s) /\ IsDigit(s[from])
    THEN ParseDigits(s, from + 1, acc * 10 + DigitVal(s[from]))
    ELSE acc

\* strtol(s + from - 1, NULL, 10) of an unsigned decimal: leading white space is
\* skipped, the digits are read, anything else ends the number (0 without digits)
StrToL(s, from) == ParseDigits(s, SkipSpace(s, from), 0)

\* the character codes the driver's arithmetic meets
Ord(c) == IF c = LF THEN 10 ELSE IF c = "e" THEN 101 ELSE 63

Chr(n) == IF n = 10 THEN LF ELSE IF n = 101 THEN "e" ELSE "?"

\* uint32_t and size_t are 32 bits wide.  A value is held as the int32_t with
\* the same bits ((uint32_t)-1 is -1): the checker's integers are 32 bits wide.
INT32_MIN == (-INT32_MAX) - 1

U32Inc(x) == IF x = INT32_MAX THEN INT32_MIN ELSE x + 1

U32Dec(x) == IF x = INT32_MIN THEN INT32_MAX ELSE x - 1

\* a - b in uint32_t
U32Sub(a, b) ==
    IF a >= 0 /\ b < 0
    THEN LET t == a - ((b + INT32_MAX) + 1)
         IN IF t < 0 THEN (t + INT32_MAX) + 1 ELSE (t - INT32_MAX) - 1
    ELSE IF a < 0 /\ b >= 0
    THEN LET t == ((a + INT32_MAX) + 1) - b
         IN IF t >= 0 THEN (t - INT32_MAX) - 1 ELSE (t + INT32_MAX) + 1
    ELSE a - b

\* a > b and a >= b in uint32_t
U32Gt(a, b) == IF (a < 0) = (b < 0) THEN a > b ELSE a < 0

U32Ge(a, b) == a = b \/ U32Gt(a, b)

\* byte k (little endian) of a 32-bit word
ByteOf(x, k) == (x \div (256 ^ k)) % 256

\* the word x with its byte k replaced by v
SetByte(x, k, v) == x - ByteOf(x, k) * (256 ^ k) + v * (256 ^ k)

RECURSIVE BytesToNul(_, _)
\* the characters read from byte k of a word up to its first zero byte
BytesToNul(x, k) ==
    IF k > 3 \/ ByteOf(x, k) = 0 THEN <<>>
    ELSE <<Chr(ByteOf(x, k))>> \o BytesToNul(x, k + 1)

---------------------------------------------------------------------------
(* The handle and the expected-code table *)

\* one SIM800_ExpectedCode_t after memset(.., 0, ..)
ZeroCode ==
    [code |-> <<>>, code_length |-> 0, data |-> <<>>,
     state |-> SIM800_DoesntExpects, handle |-> NULL]

\* SIM800_Handle_t sim800h = {0}.  rxBuffer holds the bytes stored below
\* rxCounter; rcvdByte is the byte handed to SIM800_MessageHandler.
ZeroHandle ==
    [rxBuffer |-> <<>>, rxCounter |-> 0,
     expected_codes |-> [i \in 0..(EXPECTED_CODES_MAX_COUNT - 1) |-> ZeroCode],
     expected_codes_count |-> 0, curProccesPacket_index |-> 0,
     recStatus |-> SIM800_DoesntReceive]

NoLine == <<"<none>">>

\* The world around the handle, as one call of the driver leaves it:
\*   newSms     the sms_index of each SIM800_NewSMSNotificationCallBack call
\*   rcvdSms    the message of each SIM800_RcvdSMSCallBack call
\*   armed      the HAL_UART_Receive_IT calls
\*   rxWrites   the indices of rxBuffer that were written
\*   dispatched the completed line handed to the matching code (NoLine: none)
\* and over the whole run:
\*   oob        the places that accessed memory outside an object
\*   fault      such an access stopped the processor (HardFault)
\*   listening  a one-byte receive request is armed
ZeroEnv ==
    [newSms |-> <<>>, rcvdSms |-> <<>>, armed |-> 0, rxWrites |-> {},
     dispatched |-> NoLine, oob |-> {}, fault |-> FALSE, listening |-> FALSE]

\* env at the start of a call of the driver
FreshEnv(e) ==
    [e EXCEPT !.newSms = <<>>, !.rcvdSms = <<>>, !.armed = 0, !.rxWrites = {},
              !.dispatched = NoLine]

\* The state a driver function works on: the handle h, the environment e, the
\* modem m (send_command reaches it), the function's return value ret and the
\* inputs in of the call: in.txOk, whether HAL_UART_Transmit_IT accepts a
\* transmission, and in.ub, what an access outside an object does.
World(h, e, m, in) == [h |-> h, e |-> e, m |-> m, ret |-> 0, in |-> in]

\* An access outside an object at the place tag: it stops the processor or
\* goes unnoticed, as the build and the memory map have it.
Undefined(w, tag) ==
    [w EXCEPT !.e.oob = @ \cup {tag}, !.e.fault = @ \/ (w.in.ub = "fault")]

Slots == 0..(EXPECTED_CODES_MAX_COUNT - 1)

\* the lowest Free slot, EXPECTED_CODES_MAX_COUNT when there is none
FirstFree(h) ==
    LET free == {i \in Slots : h.expected_codes[i].state = SIM800_DoesntExpects}
    IN IF free = {} THEN EXPECTED_CODES_MAX_COUNT
       ELSE CHOOSE i \in free : \A j \in free : i <= j

\* add_pending_message refusing a code of CODE_MAX_LENGTH characters too
add_pending_message_ge(w, code, messageHandler) ==
    IF Len(code) >= CODE_MAX_LENGTH \/ FirstFree(w.h) = EXPECTED_CODES_MAX_COUNT
    THEN [w EXCEPT !.ret = AddFailed]
    ELSE [w EXCEPT !.h.expected_codes[FirstFree(w.h)].code = code,
                   !.h.expected_codes[FirstFree(w.h)].code_length = Len(code),
                   !.h.expected_codes[FirstFree(w.h)].handle = messageHandler,
                   !.h.expected_codes[FirstFree(w.h)].state = SIM800_WaitingFor,
                   !.h.expected_codes_count = U32Inc(@),
                   !.h.curProccesPacket_index = FirstFree(w.h),
                   !.ret = FirstFree(w.h)]

add_pending_message(w, code, messageHandler) ==
    LET code_len == Len(code)
        i == FirstFree(w.h)
    IN IF code_len > CODE_MAX_LENGTH THEN [w EXCEPT !.ret = AddFailed]
       ELSE IF i = EXPECTED_CODES_MAX_COUNT THEN [w EXCEPT !.ret = AddFailed]
       ELSE LET w1 == [w EXCEPT !.h.expected_codes[i].code = code,
                                !.h.expected_codes[i].code_length = code_len,
                                !.h.expected_codes[i].handle = messageHandler,
                                !.h.expected_codes[i].state = SIM800_WaitingFor,
                                !.h.expected_codes_count = U32Inc(@),
                                !.h.curProccesPacket_index = i,
                                !.ret = i]
            \* strcpy of a code of CODE_MAX_LENGTH characters puts its end
            \* marker behind code[]
            IN IF code_len = CODE_MAX_LENGTH
               THEN [w1 EXCEPT !.e.oob = @ \cup {"code"}] ELSE w1

\* remove_expected_code without its expected_codes_count--
remove_expected_code_keeps_count(w, index) ==
    IF index \in Slots
    THEN [w EXCEPT !.h.expected_codes[index] = ZeroCode]
    ELSE Undefined(w, "expected_codes")

remove_expected_code(w, index) ==
    IF index \in Slots
    THEN [w EXCEPT !.h.expected_codes[index] = ZeroCode,
                   !.h.expected_codes_count = U32Dec(@)]
    ELSE \* memset of expected_codes[index] behind the table
         Undefined([w EXCEPT !.h.expected_codes_count = U32Dec(@)],
                   "expected_codes")

\* HAL_UART_Transmit_IT accepts the command (the modem gets it) or refuses it
send_command(w, cmd) ==
    IF w.in.txOk
    THEN [w EXCEPT !.m.got = Append(@, cmd), !.ret = SIM800_OK]
    ELSE [w EXCEPT !.ret = SIM800_ERROR]

validate_message(message) ==
    IF StrStr(message, <<"O", "K">>) THEN SIM800_OK ELSE SIM800_ERROR

\* strlen(e.data).  A data[] without end marker is read on into the member
\* behind it, state, whose first byte is not 0 unless the slot is Free.
StrLenData(e) ==
    IF Len(e.data) < RECEIVE_DATA_MAX_LENGTH THEN Len(e.data)
    ELSE IF e.state = SIM800_DoesntExpects THEN RECEIVE_DATA_MAX_LENGTH
    ELSE RECEIVE_DATA_MAX_LENGTH + 1

\* strcpy(expected_codes[i].data, line)
StrCpyData(w, i, line) ==
    IF Len(line) < RECEIVE_DATA_MAX_LENGTH
    THEN [w EXCEPT !.h.expected_codes[i].data = line]
    ELSE \* the bytes from data[RECEIVE_DATA_MAX_LENGTH] on land in state, which
         \* the caller assigns next
         [w EXCEPT !.h.expected_codes[i].data = Take(line, RECEIVE_DATA_MAX_LENGTH),
                   !.e.oob = @ \cup {"data"}]

\* data_str_len = strlen(data);
\* strncpy(&data[data_str_len], line, RECEIVE_DATA_MAX_LENGTH - data_str_len)
AppendData(w, i, line) ==
    LET e == w.h.expected_codes[i]
        data_str_len == StrLenData(e)
        n == RECEIVE_DATA_MAX_LENGTH - data_str_len
    IN IF data_str_len > RECEIVE_DATA_MAX_LENGTH
       THEN \* n wrapped around: strncpy fills the memory behind data[]
            [w EXCEPT !.e.oob = @ \cup {"data"}, !.e.fault = TRUE]
       ELSE [w EXCEPT !.h.expected_codes[i].data = Take(e.data \o Take(line, n),
                                                        RECEIVE_DATA_MAX_LENGTH)]

---------------------------------------------------------------------------
(* Parsers *)

\* cbc_parser reading the voltage behind the first ',' instead of the second
cbc_parser_first_comma(batt, message) ==
    IF validate_message(message) = SIM800_ERROR
    THEN [batt |-> batt, ret |-> SIM800_ERROR, defined |-> TRUE]
    ELSE Bind(StrChr(message, 1, ":"), LAMBDA p0 :
         Bind(StrChr(message, p0 + 1, ","), LAMBDA p1 :
             [batt |-> [charge_status |-> StrToL(message, p0 + 1) % 256,
                        conection_level |-> StrToL(message, p1 + 1) % 256,
                        battery_level |-> StrToL(message, p1 + 1) % 65536],
              ret |-> SIM800_OK,
              defined |-> p0 # 0 /\ p1 # 0]))

\* cbc_parser: +CBC: <bcs>,<bcl>,<voltage>.  The fields of *batt it writes
\* (uint8_t, uint8_t, uint16_t); batt unchanged when the message has no OK.
\* A missing ':' or ',' makes it read from address 1 (defined: it does not).
cbc_parser(batt, message) ==
    IF validate_message(message) = SIM800_ERROR
    THEN [batt |-> batt, ret |-> SIM800_ERROR, defined |-> TRUE]
    ELSE Bind(StrChr(message, 1, ":"), LAMBDA p0 :
         Bind(StrChr(message, p0 + 1, ","), LAMBDA p1 :
         Bind(StrChr(message, p1 + 1, ","), LAMBDA p2 :
             [batt |-> [charge_status |-> StrToL(message, p0 + 1) % 256,
                        conection_level |-> StrToL(message, p1 + 1) % 256,
                        battery_level |-> StrToL(message, p2 + 1) % 65536],
              ret |-> SIM800_OK,
              defined |-> p0 # 0 /\ p1 # 0 /\ p2 # 0])))

ZeroMessage == [sender |-> <<>>, text |-> <<>>]

\* The sender: ptr1 is the second '+' of the message, ptr2 the byte before
\* the next '"'; strncpy(sender, ptr1, ptr2 - ptr1 + 1).
cmgr_sender(message) ==
    Bind(StrChr(message, 1, "+"), LAMBDA a1 :
    Bind(StrChr(message, a1 + 1, "+"), LAMBDA ptr1 :
        IF a1 = 0 \/ ptr1 = 0 THEN [str |-> <<>>, defined |-> FALSE]
        ELSE Bind(StrChr(message, ptr1, "\"") - 1, LAMBDA ptr2 :
                 [str |-> SubSeq(message, ptr1, ptr2),
                  defined |-> /\ ptr2 # -1
                              /\ ptr2 - ptr1 + 1 < SMS_SENDER_MAX_LEN])))

\* cmgr_text copying up to the line end
cmgr_text_whole(message) ==
    Bind(StrChr(message, 1, LF) + 1, LAMBDA ptr1 :
    Bind(StrChr(message, ptr1, LF), LAMBDA ptr2 :
        [str |-> SubSeq(message, ptr1, ptr2 - 1), defined |-> TRUE]))

\* The text: ptr1 is behind the first '\n', ptr2 the next '\n';
\* strncpy(text, ptr1, ptr2 - ptr1 - 1).
cmgr_text(message) ==
    Bind(StrChr(message, 1, LF) + 1, LAMBDA ptr1 :
    Bind(StrChr(message, ptr1, LF), LAMBDA ptr2 :
        [str |-> SubSeq(message, ptr1, ptr1 + (ptr2 - ptr1 - 1) - 1),
         defined |-> /\ ptr1 # 1 /\ ptr2 # 0
                     /\ ptr2 - ptr1 - 1 >= 0
                     /\ ptr2 - ptr1 - 1 < SMS_TEXT_MAX_LEN]))

\* cmgr_parser: the SIM800_SMSMessage_t it fills, zeroed before (defined: it
\* read and wrote inside the objects it was given)
cmgr_parser(message) ==
    IF validate_message(message) = SIM800_ERROR
    THEN [msg |-> ZeroMessage, defined |-> TRUE]
    ELSE Bind(cmgr_sender(message), LAMBDA sender :
         Bind(cmgr_text(message), LAMBDA text :
             IF sender.defined /\ text.defined
             THEN [msg |-> [sender |-> sender.str, text |-> text.str],
                   defined |-> TRUE]
             ELSE [msg |-> ZeroMessage, defined |-> FALSE]))

---------------------------------------------------------------------------
(* Commands, handlers and callbacks *)

S_CMGR == <<"+", "C", "M", "G", "R">>
S_CMTI == <<"+", "C", "M", "T", "I">>
S_CBC == <<"+", "C", "B", "C">>
S_CREG == <<"+", "C", "R", "E", "G">>
S_CMGF == <<"+", "C", "M", "G", "F">>
S_CMGD == <<"+", "C", "M", "G", "D">>
S_CMGS == <<"+", "C", "M", "G", "S">>
S_DUMMY == <<"D", "U", "M", "M", "Y">>

\* SIM800_RequestSMSMessage; the command is AT+CMGR=<sms_index>
SIM800_RequestSMSMessage(w, sms_index) ==
    Bind(add_pending_message(w, S_CMGR, CMGR_HANDLER), LAMBDA w1 :
    Bind(send_command(w1, [cmd |-> "AT+CMGR", arg |-> sms_index]), LAMBDA w2 :
        IF w2.ret = SIM800_ERROR
        THEN [remove_expected_code(w2, w1.ret) EXCEPT !.ret = SIM800_ERROR]
        ELSE [w2 EXCEPT !.ret = SIM800_OK]))

\* SIM800_NewSMSNotificationCallBack: __weak, empty in the driver; the
\* application of the README requests the message.
SIM800_NewSMSNotificationCallBack(w, sms_index) ==
    Bind([w EXCEPT !.e.newSms = Append(@, sms_index)], LAMBDA w1 :
        IF w1.in.app = "readme" THEN SIM800_RequestSMSMessage(w1, sms_index)
        ELSE w1)

\* SIM800_RcvdSMSCallBack: __weak; the application keeps the message
SIM800_RcvdSMSCallBack(w, message) ==
    [w EXCEPT !.e.rcvdSms = Append(@, message)]

\* cmti_handler without its assignment to state
cmti_handler_keeps_state(w, msg_index) ==
    SIM800_NewSMSNotificationCallBack(w,
        StrToL(w.h.expected_codes[msg_index].data,
               StrChr(w.h.expected_codes[msg_index].data, 1, ",") + 1))

cmti_handler(w, msg_index) ==
    Bind(StrChr(w.h.expected_codes[msg_index].data, 1, ","), LAMBDA ptr :
    \* without a ',' strtol reads from address 1
    Bind(IF ptr = 0 THEN Undefined(w, "cmti_handler") ELSE w, LAMBDA w1 :
    Bind([w1 EXCEPT !.h.expected_codes[msg_index].state = SIM800_WaitingFor],
         LAMBDA w2 :
        SIM800_NewSMSNotificationCallBack(w2,
            IF ptr = 0 THEN 0
            ELSE StrToL(w.h.expected_codes[msg_index].data, ptr + 1)))))

cmgr_handler(w, msg_index) ==
    IF w.h.expected_codes[msg_index].state # SIM800_ReceivedStatus THEN w
    ELSE Bind(cmgr_parser(w.h.expected_codes[msg_index].data), LAMBDA parsed :
         Bind(IF parsed.defined THEN w ELSE Undefined(w, "cmgr_parser"), LAMBDA w1 :
         Bind(SIM800_RcvdSMSCallBack(w1, parsed.msg), LAMBDA w2 :
             remove_expected_code(w2, msg_index))))

\* expected_codes[i].handle(handle, i), when the slot has a handler
CallHandle(w, i) ==
    IF w.h.expected_codes[i].handle = CMTI_HANDLER THEN cmti_handler(w, i)
    ELSE IF w.h.expected_codes[i].handle = CMGR_HANDLER THEN cmgr_handler(w, i)
    ELSE w

---------------------------------------------------------------------------
(* SIM800_MessageHandler *)

\* HAL_UART_Receive_IT(SIM800_UART, &handle->rcvdByte, 1)
HAL_UART_Receive_IT(w) == [w EXCEPT !.e.armed = @ + 1]

\* rcvdByte != '\n': the byte is stored when the buffer is not full
StoreByte(w, rcvdByte) ==
    IF w.h.rxCounter < RX_BUFFER_LENGTH
    THEN [w EXCEPT !.h.rxBuffer = Append(@, rcvdByte),
                   !.h.rxCounter = @ + 1,
                   !.e.rxWrites = @ \cup {w.h.rxCounter}]
    ELSE w

\* rxBuffer[rxCounter] = rcvdByte; rxCounter++; rxBuffer[rxCounter] = '\0'.
\* rxCounter lies right behind rxBuffer[RX_BUFFER_LENGTH - 1], so a store at
\* index RX_BUFFER_LENGTH + k lands in byte k of rxCounter.  A build that
\* reloads rxCounter after the store ("reload") counts on from the changed
\* value; one that takes the two members for disjoint ("cached") counts on
\* from the value it holds in a register.  dispatched is the string the
\* matching code then reads at rxBuffer.
TerminateLine(w, rcvdByte, build) ==
    Bind(w.h.rxCounter, LAMBDA c0 :
    Bind(IF c0 < RX_BUFFER_LENGTH THEN Append(w.h.rxBuffer, rcvdByte)
         ELSE w.h.rxBuffer, LAMBDA buf :
    Bind(IF c0 < RX_BUFFER_LENGTH THEN c0
         ELSE SetByte(c0, c0 - RX_BUFFER_LENGTH, Ord(rcvdByte)), LAMBDA mem0 :
    Bind(U32Inc(IF build = "reload" THEN mem0 ELSE c0), LAMBDA c1 :
    Bind(IF c1 < RX_BUFFER_LENGTH THEN c1
         ELSE SetByte(c1, c1 - RX_BUFFER_LENGTH, 0), LAMBDA mem1 :
        [w EXCEPT !.h.rxBuffer = Take(buf, Min(c1, RX_BUFFER_LENGTH)),
                  !.h.rxCounter = mem1,
                  !.e.rxWrites = @ \cup {c0, c1},
                  !.e.oob = @ \cup (IF c0 < RX_BUFFER_LENGTH /\ c1 < RX_BUFFER_LENGTH
                                    THEN {} ELSE {"rxBuffer"}),
                  !.e.dispatched = IF c1 < RX_BUFFER_LENGTH THEN Take(buf, c1)
                                   ELSE buf \o BytesToNul(mem1, 0)])))))

IsStatusLine(line) ==
    StrNEq(line, <<"O", "K">>, 2) \/ StrNEq(line, <<"E", "R", "R", "O", "R">>, 2)

\* the "OK"/"ERROR" branch
StatusLine(w, line) ==
    Bind(AppendData(w, w.h.curProccesPacket_index, line), LAMBDA w1 :
    Bind([w1 EXCEPT !.h.expected_codes[w.h.curProccesPacket_index].state =
                        SIM800_ReceivedStatus], LAMBDA w2 :
        CallHandle(w2, w.h.curProccesPacket_index)))

\* a WaitingFor slot whose code the line starts with
MatchSlot(w, i, line) ==
    Bind(StrCpyData(w, i, line), LAMBDA w1 :
    Bind([w1 EXCEPT !.h.curProccesPacket_index = i,
                    !.h.expected_codes[i].state = SIM800_Received], LAMBDA w2 :
        CallHandle(w2, i)))

\* One pass of the for loop over expected_codes: slot i, with w the world
\* before it.  done: the loop was left by its break.
ScanSlot(w, line, i, counter, flag) ==
    IF w.h.expected_codes[i].state # SIM800_WaitingFor
    THEN [w |-> w, counter |-> counter, flag |-> flag, done |-> FALSE]
    ELSE Bind(StrNEq(line, w.h.expected_codes[i].code,
                     w.h.expected_codes[i].code_length), LAMBDA hit :
         Bind(IF hit THEN MatchSlot(w, i, line) ELSE w, LAMBDA w1 :
             [w |-> w1, counter |-> counter + 1,
              flag |-> IF hit THEN 0 ELSE flag,
              done |-> U32Ge(counter + 1, w1.h.expected_codes_count)]))

RECURSIVE ScanCodes(_, _, _)
\* the for loop over expected_codes, from slot i on, s being the world, the
\* counter and the flag before it; flag is cleared by a match
ScanCodes(s, line, i) ==
    IF i >= EXPECTED_CODES_MAX_COUNT \/ s.done THEN s
    ELSE Bind(ScanSlot(s.w, line, i, s.counter, s.flag),
              LAMBDA s1 : ScanCodes(s1, line, i + 1))

\* the lines that follow the loop: a line that matched no code is appended to
\* the data of the current slot when that slot is Received
Continuation(w, line, flag) ==
    IF /\ flag = 1
       /\ w.h.expected_codes[w.h.curProccesPacket_index].state = SIM800_Received
       /\ ~StrNEq(w.h.expected_codes[w.h.curProccesPacket_index].data, <<CR, LF>>, 2)
    THEN AppendData(w, w.h.curProccesPacket_index, line)
    ELSE w

\* the branch of a line that is no status line
OtherLine(w, line) ==
    Bind(ScanCodes([w |-> w, counter |-> 0, flag |-> 1, done |-> FALSE], line, 0),
         LAMBDA s : Continuation(s.w, line, s.flag))

\* the part of SIM800_MessageHandler behind the completed line
Dispatch(w) ==
    Bind(IF IsStatusLine(w.e.dispatched) THEN StatusLine(w, w.e.dispatched)
         ELSE OtherLine(w, w.e.dispatched), LAMBDA w2 :
    Bind([w2 EXCEPT !.h.rxCounter = 0, !.h.rxBuffer = <<>>], LAMBDA w3 :
        IF w3.h.recStatus = SIM800_Receives THEN HAL_UART_Receive_IT(w3)
        ELSE w3))

SIM800_MessageHandler(w0, rcvdByte, build) ==
    Bind([w0 EXCEPT !.e = FreshEnv(@)], LAMBDA w :
        IF rcvdByte # LF
        THEN HAL_UART_Receive_IT(StoreByte(w, rcvdByte))
        ELSE Bind(TerminateLine(w, rcvdByte, build), LAMBDA w1 : Dispatch(w1)))

---------------------------------------------------------------------------
(* The modem and the serial line *)

S_OK == <<"O", "K">>
S_ERROR == <<"E", "R", "R", "O", "R">>
\* +CBC: <bcs>,<bcl>,<voltage>
S_CBC_INFO ==
    S_CBC \o <<":", " ", "1", ",", "8", "0", ",", "4", "1", "0", "0">>
\* +CREG: <n>,<stat>
S_CREG_INFO == S_CREG \o <<":", " ", "0", ",", "1">>
S_SENDER == <<"+", "1", "5", "5", "5", "1", "2", "3", "4", "5", "6", "7">>
\* +CMGR: "REC UNREAD","<sender>","","<time stamp>"
S_CMGR_INFO ==
    S_CMGR \o <<":", " ", "\"", "R", "E", "C", " ", "U", "N", "R", "E", "A", "D",
                "\"", ",", "\"">> \o S_SENDER
           \o <<"\"", ",", "\"", "\"", ",", "\"", "2", "3", "/", "0", "1", "/",
                "0", "1", ",", "0", "0", ":", "0", "0", ":", "0", "0", "+", "0",
                "0", "\"">>
S_HELLO == <<"H", "e", "l", "l", "o", " ", "t", "h", "e", "r", "e">>
\* +CMTI: <mem3>,<index>
S_CMTI_INFO(k) ==
    S_CMTI \o <<":", " ", "\"", "S", "M", "\"", ",">> \o <<Digits[k + 1]>>

\* n filler bytes
Fill(n) == [i \in 1..n |-> <<"x", "y", "z">>[(i % 3) + 1]]

\* the line end the modem uses: CR LF, or the bare LF of the examples
Eol(c) == IF c.eol = "CRLF" THEN <<CR, LF>> ELSE <<LF>>

\* the text bodies of stored messages
SmsBodies == {S_HELLO, Fill(MaxSmsText)}

\* the reply lines of the modem to a command, without their line ends;
\* bodies: the texts of the messages it stores
Replies(command, bodies) ==
    LET info == IF command.cmd = "AT+CBC" THEN {<<S_CBC_INFO, S_OK>>}
                ELSE IF command.cmd = "AT+CREG?" THEN {<<S_CREG_INFO, S_OK>>}
                ELSE IF command.cmd = "AT+CMGR"
                THEN {<<S_CMGR_INFO, body, S_OK>> : body \in bodies}
                ELSE {<<S_OK>>}
    IN info \cup {<<S_ERROR>>}

RECURSIVE Framed(_, _)
\* reply lines with their line ends and, in the framing of a real modem, an
\* empty line before the information response and before the result code
Framed(lines, c) ==
    IF lines = <<>> THEN <<>>
    ELSE LET l == Head(lines)
             blank == c.blank /\ (StrNEq(l, <<"+">>, 1) \/ IsStatusLine(l))
         IN (IF blank THEN <<Eol(c)>> ELSE <<>>)
            \o <<l \o Eol(c)>> \o Framed(Tail(lines), c)

IdleWire == [line |-> <<>>, pos |-> 0]

WireIdle == wire.pos = Len(wire.line)

\* got: the commands the modem was sent and has not answered yet; taken: how
\* many it has answered; out: the lines of the reply it is sending; notifs,
\* noise: the unsolicited lines it sent
ZeroModem ==
    [got |-> <<>>, taken |-> 0, out |-> <<>>, notifs |-> 0, noise |-> 0]

Running == ~env.fault

\* the modem takes up the oldest command it was sent and prepares its reply
ModemAnswer ==
    /\ Running
    /\ modem.got # <<>> /\ modem.out = <<>>
    /\ \E r \in Replies(Head(modem.got), cfg.bodies) :
           modem' = [modem EXCEPT !.got = Tail(@), !.taken = @ + 1,
                                  !.out = Framed(r, cfg)]
    /\ UNCHANGED <<handle, notifIndex, env, wire, main, tick, cfg>>

\* the next line of the reply goes on the wire
ModemSendLine ==
    /\ Running
    /\ WireIdle /\ modem.out # <<>>
    /\ wire' = [line |-> Head(modem.out), pos |-> 0]
    /\ modem' = [modem EXCEPT !.out = Tail(@)]
    /\ UNCHANGED <<handle, notifIndex, env, main, tick, cfg>>

NotifIndices == {3, 5}

\* the index of the message the caller context asks for
RequestIndices == {4}

\* an unsolicited +CMTI notification goes on the wire
ModemNotify ==
    /\ Running
    /\ cfg.notify
    /\ WireIdle /\ modem.notifs < MaxNotifications
    /\ \E k \in cfg.indices :
           wire' = [line |-> S_CMTI_INFO(k) \o Eol(cfg), pos |-> 0]
    /\ modem' = [modem EXCEPT !.notifs = @ + 1]
    /\ UNCHANGED <<handle, notifIndex, env, main, tick, cfg>>

FillLengths == {1, RX_BUFFER_LENGTH - 2, RX_BUFFER_LENGTH - 1, RX_BUFFER_LENGTH, MaxFill}

\* a line of filler bytes of one of the lengths, behind one of the heads, goes
\* on the wire
ModemNoise(heads, lengths) ==
    /\ Running
    /\ WireIdle /\ modem.noise < MaxNoise
    /\ \E n \in lengths, head \in heads :
           wire' = [line |-> head \o Fill(n) \o Eol(cfg), pos |-> 0]
    /\ modem' = [modem EXCEPT !.noise = @ + 1]
    /\ UNCHANGED <<handle, notifIndex, env, main, tick, cfg>>

\* what the call of SIM800_MessageHandler may meet: a transmission accepted
\* or refused, an access outside an object unnoticed or stopping the processor
IsrInputs(c) ==
    {[txOk |-> t, ub |-> u, app |-> c.app] :
         t \in BOOLEAN, u \in {"unnoticed", "fault"}}

QuietInputs(c) == {[txOk |-> TRUE, ub |-> "unnoticed", app |-> c.app]}

\* HAL_UART_RxCpltCallback for the byte rcvdByte: it calls
\* SIM800_MessageHandler.  The receive request that brought the byte is used
\* up; without a request armed the byte is lost.
Receive(w, rcvdByte, build) ==
    IF ~w.e.listening \/ w.e.fault THEN w
    ELSE Bind(SIM800_MessageHandler([w EXCEPT !.e.listening = FALSE],
                                    rcvdByte, build), LAMBDA w1 :
             [w1 EXCEPT !.e.listening = w1.e.armed > 0])

RECURSIVE ReceiveRange(_, _, _, _, _)
\* the bytes from..to of a line arrive one after the other (the range is
\* halved to keep the evaluation shallow)
ReceiveRange(w, bytes, from, to, build) ==
    IF from > to THEN w
    ELSE IF from = to THEN Receive(w, bytes[from], build)
    ELSE Bind(ReceiveRange(w, bytes, from, (from + to) \div 2, build),
              LAMBDA w1 : ReceiveRange(w1, bytes, (from + to) \div 2 + 1, to, build))

\* the next byte of the wire arrives
RxByte ==
    /\ Running
    /\ ~WireIdle
    /\ wire' = [wire EXCEPT !.pos = @ + 1]
    /\ \E in \in (IF wire.line[wire.pos + 1] = LF THEN IsrInputs(cfg)
                  ELSE QuietInputs(cfg)) :
       \E w \in {Receive(World(handle, env, modem, in),
                         wire.line[wire.pos + 1], cfg.build)} :
          /\ handle' = w.h
          /\ env' = w.e
          /\ modem' = w.m
    /\ UNCHANGED <<notifIndex, main, tick, cfg>>

\* the bytes of the line on the wire arrive without a step of the caller
\* between them; only the call for the last byte, the '\n', goes beyond
\* rxBuffer and rxCounter
RxLine ==
    /\ Running
    /\ ~WireIdle /\ wire.pos = 0
    /\ wire' = [wire EXCEPT !.pos = Len(wire.line)]
    /\ \E quiet \in QuietInputs(cfg) :
       \E w0 \in {ReceiveRange(World(handle, env, modem, quiet), wire.line,
                                 1, Len(wire.line) - 1, cfg.build)} :
       \E in \in IsrInputs(cfg) :
       \E w \in {Receive([w0 EXCEPT !.in = in], wire.line[Len(wire.line)],
                         cfg.build)} :
          /\ handle' = w.h
          /\ env' = w.e
          /\ modem' = w.m
    /\ UNCHANGED <<notifIndex, main, tick, cfg>>

---------------------------------------------------------------------------
(* The caller context *)

SIM800_ManageReceiving(w, enordi) ==
    IF enordi /\ w.h.recStatus = SIM800_DoesntReceive
    THEN \* HAL_UART_Receive_IT != HAL_OK when the UART refuses the request
         IF ~w.in.txOk THEN [w EXCEPT !.ret = SIM800_ERROR]
         ELSE [HAL_UART_Receive_IT(w) EXCEPT !.h.recStatus = SIM800_Receives,
                                             !.e.listening = TRUE,
                                             !.ret = SIM800_OK]
    ELSE IF w.h.recStatus = SIM800_Receives
    THEN [w EXCEPT !.h.recStatus = SIM800_DoesntReceive, !.ret = SIM800_OK]
    ELSE [w EXCEPT !.ret = SIM800_OK]

\* the synchronous commands: their AT command and the code they register
Commands ==
    [SIM800_GetBatteryInfo |-> [cmd |-> "AT+CBC", code |-> S_CBC],
     SIM800_GetStatus |-> [cmd |-> "AT", code |-> S_DUMMY],
     SIM800_GetNetworkRegStatus |-> [cmd |-> "AT+CREG?", code |-> S_CREG],
     SIM800_SetSMSTextMode |-> [cmd |-> "AT+CMGF=1", code |-> S_CMGF],
     SIM800_DeleteAllSMSMessages |-> [cmd |-> "AT+CMGD=1,4", code |-> S_CMGD]]

SyncOps == DOMAIN Commands

SIM800_FAIL == 6

ZeroBattery == [charge_status |-> 0, conection_level |-> 0, battery_level |-> 0]

\* arg, code: the arguments of the last call of a function that takes them.
\* pc: "idle" between calls; inside a synchronous command "send" (the code is
\* registered), "wait" (in wait_for_state), "check" (wait_for_state returned
\* SIM800_OK).  op, index, tickStart: the function running and its locals;
\* ret: what the last call returned; battery: the caller's SIM800_Battery_t.
\* ret before a function returned: a value no function returns
NoResult == 0 - 1

ZeroMain ==
    [pc |-> "idle", op |-> "none", arg |-> 0, code |-> <<>>, index |-> 0,
     tickStart |-> 0, ticks |-> 0, ret |-> NoResult, battery |-> ZeroBattery,
     calls |-> 0]

MainInputs(c) ==
    {[txOk |-> t, ub |-> u, app |-> c.app] :
         t \in BOOLEAN, u \in {"unnoticed", "fault"}}

\* what a function returns on its error paths
Failure(op, status) ==
    IF op = "SIM800_GetNetworkRegStatus" THEN SIM800_FAIL ELSE status

\* a synchronous command is called: uint8_t index = add_pending_message(...)
Call(op) ==
    /\ Running
    /\ main.pc = "idle" /\ main.calls < MaxCalls
    /\ \E in \in QuietInputs(cfg) :
       \E w \in {add_pending_message(World(handle, env, modem, in),
                                      Commands[op].code, NULL)} :
          /\ handle' = w.h
          /\ env' = w.e
          /\ main' = [main EXCEPT !.pc = "send", !.op = op, !.index = w.ret,
                                  !.ret = NoResult, !.calls = @ + 1]
    /\ UNCHANGED <<notifIndex, wire, modem, tick, cfg>>

\* if (send_command(cmd) == SIM800_ERROR) { remove_expected_code; return .. }
\* and the entry of wait_for_state: tickStart = HAL_GetTick().  arg notes the
\* number of the command among those the modem was sent.
Send ==
    /\ Running
    /\ main.pc = "send"
    /\ \E in \in MainInputs(cfg) :
         \E w \in {send_command(World(handle, env, modem, in),
                                  [cmd |-> Commands[main.op].cmd, arg |-> 0])} :
         \E w1 \in {IF w.ret = SIM800_ERROR
                     THEN remove_expected_code(w, main.index) ELSE w} :
            /\ handle' = w1.h
            /\ env' = w1.e
            /\ modem' = w1.m
            /\ main' = IF w.ret = SIM800_ERROR
                       THEN [main EXCEPT !.pc = "idle",
                                         !.ret = Failure(main.op, SIM800_ERROR)]
                       ELSE [main EXCEPT !.pc = "wait", !.tickStart = tick,
                                         !.ticks = 0,
                                         !.arg = modem.taken + Len(w.m.got)]
    /\ UNCHANGED <<notifIndex, wire, tick, cfg>>

\* wait_for_state with a deadline, tickStart + SIM800_MAX_DELAY in uint32_t,
\* for the difference
Expired_deadline(now, tickStart) ==
    U32Gt(now, U32Sub(tickStart, -SIM800_MAX_DELAY))

\* the comparison of wait_for_state with >= for >
Expired_ge(now, tickStart) == U32Ge(U32Sub(now, tickStart), SIM800_MAX_DELAY)

\* HAL_GetTick() - tickStart > SIM800_MAX_DELAY, in uint32_t
Expired(now, tickStart) == U32Gt(U32Sub(now, tickStart), SIM800_MAX_DELAY)

\* wait_for_state(handle, SIM800_ReceivedStatus, index) returns SIM800_OK
WaitDone ==
    /\ Running
    /\ main.pc = "wait"
    /\ main.index \in Slots
    /\ handle.expected_codes[main.index].state = SIM800_ReceivedStatus
    /\ main' = [main EXCEPT !.pc = "check"]
    /\ UNCHANGED <<handle, notifIndex, env, wire, modem, tick, cfg>>

\* a wait_for_state that releases the slot itself when it gives up
WaitTimeout_releases ==
    /\ Running
    /\ main.pc = "wait"
    /\ main.index \in Slots
    /\ handle.expected_codes[main.index].state # SIM800_ReceivedStatus
    /\ Expired(tick, main.tickStart)
    /\ \E in \in MainInputs(cfg) :
         handle' = remove_expected_code(World(handle, env, modem, in), main.index).h
    /\ main' = [main EXCEPT !.pc = "timeout"]
    /\ UNCHANGED <<notifIndex, env, wire, modem, tick, cfg>>

\* wait_for_state returns SIM800_TIMEOUT; the caller removes the code
WaitTimeout ==
    /\ Running
    /\ main.pc = "wait"
    /\ main.index \in Slots
    /\ handle.expected_codes[main.index].state # SIM800_ReceivedStatus
    /\ Expired(tick, main.tickStart)
    /\ main' = [main EXCEPT !.pc = "timeout"]
    /\ UNCHANGED <<handle, notifIndex, env, wire, modem, tick, cfg>>

\* { remove_expected_code(handle, index); return SIM800_TIMEOUT; }
TimeoutReturn ==
    /\ Running
    /\ main.pc = "timeout"
    /\ \E in \in MainInputs(cfg) :
         \E w \in {remove_expected_code(World(handle, env, modem, in), main.index)} :
            handle' = w.h /\ env' = w.e
    /\ main' = [main EXCEPT !.pc = "idle", !.ret = Failure(main.op, SIM800_TIMEOUT)]
    /\ UNCHANGED <<notifIndex, wire, modem, tick, cfg>>

\* the rest of a synchronous command: validate_message, the parser of the
\* command, remove_expected_code, return
Finish(w, m) ==
    Bind(w.h.expected_codes[m.index].data, LAMBDA data :
        IF validate_message(data) = SIM800_ERROR
        THEN [w |-> remove_expected_code(w, m.index),
              main |-> [m EXCEPT !.ret = Failure(m.op, SIM800_ERROR)]]
        ELSE IF m.op = "SIM800_GetStatus"
        THEN \* returns without remove_expected_code
             [w |-> w, main |-> [m EXCEPT !.ret = SIM800_OK]]
        ELSE IF m.op = "SIM800_GetBatteryInfo"
        THEN Bind(cbc_parser(m.battery, data), LAMBDA cbc :
                 [w |-> remove_expected_code(
                          IF cbc.defined THEN w ELSE Undefined(w, "cbc_parser"),
                          m.index),
                  main |-> [m EXCEPT !.battery = cbc.batt, !.ret = SIM800_OK]])
        ELSE IF m.op = "SIM800_GetNetworkRegStatus"
        THEN Bind(StrChr(data, 1, ","), LAMBDA p :
                 [w |-> remove_expected_code(
                          IF p # 0 THEN w ELSE Undefined(w, "strtol"), m.index),
                  main |-> [m EXCEPT !.ret = IF p # 0 THEN StrToL(data, p + 1)
                                              ELSE 0]])
        ELSE [w |-> remove_expected_code(w, m.index),
              main |-> [m EXCEPT !.ret = SIM800_OK]])

Check ==
    /\ Running
    /\ main.pc = "check"
    /\ main.index \in Slots
    /\ \E in \in MainInputs(cfg) :
         \E f \in {Finish(World(handle, env, modem, in), main)} :
            /\ handle' = f.w.h
            /\ env' = f.w.e
            /\ main' = [f.main EXCEPT !.pc = "idle"]
    /\ UNCHANGED <<notifIndex, wire, modem, tick, cfg>>

\* wait_for_state with an index that is no slot of the table (0xFF, which
\* add_pending_message returned): expected_codes[index].state is read behind
\* the handle.  What is read there equals the awaited state, or it does not
\* and the function leaves at the timeout; or the read stops the processor.
WaitStray ==
    /\ Running
    /\ main.pc = "wait"
    /\ main.index \notin Slots
    /\ \E in \in MainInputs(cfg) :
       \E w \in {Undefined(World(handle, env, modem, in), "expected_codes")} :
          env' = w.e
    /\ \/ main' = [main EXCEPT !.pc = "check"]
       \/ /\ Expired(tick, main.tickStart)
          /\ main' = [main EXCEPT !.pc = "timeout"]
    /\ UNCHANGED <<handle, notifIndex, wire, modem, tick, cfg>>

\* The rest of a synchronous command whose index is no slot of the table:
\* validate_message reads expected_codes[index].data behind the handle and
\* finds "OK" there (found) or does not; the parsers find no number there.
FinishStray(w, m, found) ==
    Bind(Undefined(w, "expected_codes"), LAMBDA w1 :
        IF ~found
        THEN [w |-> remove_expected_code(w1, m.index),
              main |-> [m EXCEPT !.ret = Failure(m.op, SIM800_ERROR)]]
        ELSE IF m.op = "SIM800_GetStatus"
        THEN [w |-> w1, main |-> [m EXCEPT !.ret = SIM800_OK]]
        ELSE IF m.op = "SIM800_GetBatteryInfo"
        THEN [w |-> remove_expected_code(w1, m.index),
              main |-> [m EXCEPT !.battery = ZeroBattery, !.ret = SIM800_OK]]
        ELSE IF m.op = "SIM800_GetNetworkRegStatus"
        THEN [w |-> remove_expected_code(w1, m.index),
              main |-> [m EXCEPT !.ret = 0]]
        ELSE [w |-> remove_expected_code(w1, m.index),
              main |-> [m EXCEPT !.ret = SIM800_OK]])

CheckStray ==
    /\ Running
    /\ main.pc = "check"
    /\ main.index \notin Slots
    /\ \E in \in MainInputs(cfg), found \in BOOLEAN :
         \E f \in {FinishStray(World(handle, env, modem, in), main, found)} :
            /\ handle' = f.w.h
            /\ env' = f.w.e
            /\ main' = [f.main EXCEPT !.pc = "idle"]
    /\ UNCHANGED <<notifIndex, wire, modem, tick, cfg>>

TickSteps == {1, SIM800_MAX_DELAY \div 2}

\* d ticks pass while the caller waits
Tick(d) ==
    /\ Running
    /\ main.pc = "wait" /\ main.ticks < MaxTicks
    /\ ~Expired(tick, main.tickStart)
    /\ tick' = U32Sub(tick, -d)
    /\ main' = [main EXCEPT !.ticks = @ + 1]
    /\ UNCHANGED <<handle, notifIndex, env, wire, modem, cfg>>

\* SIM800_ManageSMSNotifications; index is its static variable.  ENABLE
\* returns SIM800_OK whatever add_pending_message returned.
SIM800_ManageSMSNotifications(w, index, enordi) ==
    IF enordi
    THEN IF index = NoNotifIndex
         THEN Bind(add_pending_message(w, S_CMTI, CMTI_HANDLER), LAMBDA w1 :
                  [w |-> [w1 EXCEPT !.ret = SIM800_OK], index |-> w1.ret])
         ELSE [w |-> [w EXCEPT !.ret = SIM800_ERROR], index |-> index]
    ELSE IF index # NoNotifIndex
         THEN [w |-> [remove_expected_code(w, index) EXCEPT !.ret = SIM800_OK],
               index |-> NoNotifIndex]
         ELSE [w |-> [w EXCEPT !.ret = SIM800_OK], index |-> index]

\* the caller context calls SIM800_RequestSMSMessage(handle, sms_index)
RequestSms(sms_index) ==
    /\ Running
    /\ main.pc = "idle" /\ main.calls < MaxRequests
    /\ \E in \in MainInputs(cfg) :
       \E w \in {SIM800_RequestSMSMessage(World(handle, env, modem, in), sms_index)} :
          /\ handle' = w.h
          /\ env' = w.e
          /\ modem' = w.m
          /\ main' = [main EXCEPT !.op = "SIM800_RequestSMSMessage",
                                  !.arg = sms_index, !.ret = w.ret,
                                  !.calls = @ + 1]
    /\ UNCHANGED <<notifIndex, wire, tick, cfg>>

\* the caller context calls SIM800_ManageSMSNotifications(handle, enordi);
\* arg notes enordi (ENABLE is 1, DISABLE is 0)
Notifications(enordi) ==
    /\ Running
    /\ main.pc = "idle" /\ main.calls < MaxManage
    /\ \E in \in MainInputs(cfg) :
       \E r \in {SIM800_ManageSMSNotifications(
                      World(handle, FreshEnv(env), modem, in), notifIndex, enordi)} :
          /\ handle' = r.w.h
          /\ env' = r.w.e
          /\ notifIndex' = r.index
          /\ main' = [main EXCEPT !.op = "SIM800_ManageSMSNotifications",
                                  !.arg = IF enordi THEN 1 ELSE 0,
                                  !.ret = r.w.ret, !.calls = @ + 1]
    /\ UNCHANGED <<wire, modem, tick, cfg>>

\* the caller context calls SIM800_ManageReceiving(handle, enordi); arg notes
\* enordi (ENABLE is 1, DISABLE is 0).  in.txOk: HAL_UART_Receive_IT accepts
\* the request.
Reception(enordi) ==
    /\ Running
    /\ main.pc = "idle" /\ main.calls < MaxManage
    /\ \E in \in MainInputs(cfg) :
       \E w \in {SIM800_ManageReceiving(World(handle, FreshEnv(env), modem, in),
                                         enordi)} :
          /\ handle' = w.h
          /\ env' = w.e
          /\ main' = [main EXCEPT !.op = "SIM800_ManageReceiving",
                                  !.arg = IF enordi THEN 1 ELSE 0,
                                  !.ret = w.ret, !.calls = @ + 1]
    /\ UNCHANGED <<notifIndex, wire, modem, tick, cfg>>

---------------------------------------------------------------------------
(* Specifications *)

Builds == {"reload", "cached"}

\* the handle after SIM800_ManageReceiving(&sim800h, ENABLE) returned SIM800_OK
Receiving ==
    SIM800_ManageReceiving(
        World(ZeroHandle, ZeroEnv, ZeroModem,
              [txOk |-> TRUE, ub |-> "unnoticed", app |-> "weak"]), TRUE)

\* The line assembler: the modem sends lines of any length to a driver that
\* expects nothing.
InitRx ==
    /\ handle = Receiving.h
    /\ env = Receiving.e
    /\ notifIndex = NoNotifIndex
    /\ wire = IdleWire
    /\ modem = ZeroModem
    /\ main = ZeroMain
    /\ tick = 0
    /\ cfg \in [build : Builds, app : {"weak"}, eol : {"LF", "CRLF"},
                blank : {FALSE}, notify : {FALSE}, indices : {{}},
                bodies : {{}}]

\* filler lines and status lines followed by filler
NextRx == ModemNoise({<<>>, S_OK}, FillLengths) \/ RxByte

SpecRx == InitRx /\ [][NextRx]_vars

---------------------------------------------------------------------------
(* The expected-code table under register and release calls *)

\* codes of CODE_MAX_LENGTH and of CODE_MAX_LENGTH + 1 characters
Code10 == Fill(CODE_MAX_LENGTH)
Code11 == Fill(CODE_MAX_LENGTH + 1)

TableCodes == {Code10, Code11}

NonFree(h) == {i \in Slots : h.expected_codes[i].state # SIM800_DoesntExpects}

\* index = add_pending_message(handle, code, messageHandler)
Register(code, messageHandler) ==
    /\ \E in \in QuietInputs(cfg) :
       \E w \in {add_pending_message(World(handle, FreshEnv(env), modem, in),
                                      code, messageHandler)} :
          /\ handle' = w.h
          /\ env' = w.e
          /\ main' = [main EXCEPT !.op = "add_pending_message", !.code = code,
                                  !.arg = 0, !.ret = w.ret]
    /\ UNCHANGED <<notifIndex, wire, modem, tick, cfg>>

\* remove_expected_code(handle, index), of a slot in use or (calls counts
\* them) of a slot that is Free already
Release(index) ==
    /\ index \in NonFree(handle) \/ main.calls < MaxStray
    /\ \E in \in QuietInputs(cfg) :
       \E w \in {remove_expected_code(World(handle, FreshEnv(env), modem, in), index)} :
          /\ handle' = w.h
          /\ env' = w.e
    /\ main' = [main EXCEPT !.op = "remove_expected_code", !.arg = index,
                            !.code = <<>>, !.ret = NoResult,
                            !.calls = IF index \in NonFree(handle) THEN @ ELSE @ + 1]
    /\ UNCHANGED <<notifIndex, wire, modem, tick, cfg>>

InitTable ==
    /\ handle = ZeroHandle
    /\ env = ZeroEnv
    /\ notifIndex = NoNotifIndex
    /\ wire = IdleWire
    /\ modem = ZeroModem
    /\ main = ZeroMain
    /\ tick = 0
    /\ cfg = [build |-> "reload", app |-> "weak", eol |-> "CRLF",
              blank |-> FALSE, notify |-> FALSE, indices |-> {}, bodies |-> {}]

NextTable ==
    \/ \E code \in TableCodes : Register(code, NULL)
    \/ \E index \in Slots : Release(index)

SpecTable == InitTable /\ [][NextTable]_vars

---------------------------------------------------------------------------
(* Messages: notifications, requests and the replies to them *)

\* the driver after SIM800_ManageReceiving(ENABLE) and
\* SIM800_ManageSMSNotifications(ENABLE), as the README sets it up
Notified == SIM800_ManageSMSNotifications(Receiving, NoNotifIndex, TRUE)

InitSms ==
    /\ handle = Notified.w.h
    /\ env = Notified.w.e
    /\ notifIndex = Notified.index
    /\ wire = IdleWire
    /\ modem = ZeroModem
    /\ main = ZeroMain
    /\ tick = 0
    /\ cfg \in [build : {"reload"}, app : {"weak", "readme"}, eol : {"LF", "CRLF"},
                blank : {FALSE}, notify : {TRUE}, indices : {NotifIndices},
                bodies : {SmsBodies}]

\* The bytes of a line before its last touch rxBuffer and rxCounter only, which
\* nothing else reads: a step of the caller or of the modem taken in the
\* middle of a line leads where the same step before the line leads.  So the
\* line arrives as a whole and these steps are taken between lines.
NextSms ==
    \/ WireIdle /\ \E k \in RequestIndices : RequestSms(k)
    \/ ModemNotify
    \/ WireIdle /\ ModemAnswer
    \/ ModemSendLine
    \/ RxLine

SpecSms == InitSms /\ [][NextSms]_vars

---------------------------------------------------------------------------
(* Synchronous commands: the caller, the modem's replies and notifications *)

\* the driver as the README sets it up, with or without SMS notifications
InitCmd ==
    /\ wire = IdleWire
    /\ modem = ZeroModem
    /\ main = ZeroMain
    /\ tick = 0
    /\ cfg \in [build : {"reload"}, app : {"weak", "readme"}, eol : {"LF", "CRLF"},
                blank : {FALSE}, notify : BOOLEAN, indices : {{3}},
                bodies : {{S_HELLO}}]
    /\ cfg.app = "readme" => cfg.notify
    /\ handle = IF cfg.notify THEN Notified.w.h ELSE Receiving.h
    /\ env = IF cfg.notify THEN Notified.w.e ELSE Receiving.e
    /\ notifIndex = IF cfg.notify THEN Notified.index ELSE NoNotifIndex

NextCmd ==
    \/ WireIdle /\ \E op \in SyncOps : Call(op)
    \/ WireIdle /\ Send
    \/ WireIdle /\ WaitDone
    \/ WireIdle /\ WaitTimeout
    \/ WireIdle /\ TimeoutReturn
    \/ WireIdle /\ Check
    \/ WireIdle /\ Tick(SIM800_MAX_DELAY + 1)
    \/ WireIdle /\ ModemAnswer
    \/ ModemSendLine
    \/ ModemNotify
    \/ RxLine

SpecCmd == InitCmd /\ [][NextCmd]_vars

---------------------------------------------------------------------------
(* A command the modem does not answer *)

\* The modem sends notifications and lines that are no status line and start
\* with no code; it answers no command.
NextTimeout ==
    \/ WireIdle /\ \E op \in SyncOps : Call(op)
    \/ WireIdle /\ Send
    \/ WireIdle /\ WaitTimeout
    \/ WireIdle /\ TimeoutReturn
    \/ WireIdle /\ \E d \in TickSteps : Tick(d)
    \/ ModemNotify
    \/ ModemNoise({<<>>}, {1})
    \/ RxLine

SpecTimeout == InitCmd /\ [][NextTimeout]_vars

---------------------------------------------------------------------------
(* A wait during which HAL_GetTick() wraps around to 0 *)

\* HAL_GetTick() when the command is called: a wait of SIM800_MAX_DELAY
\* ticks from 0xFFFFFFFF and from 0xFFFFFFFF - SIM800_MAX_DELAY / 2 passes
\* the wrap of the counter, a wait from 0 does not
WrapStarts == {0, 0 - 1, (0 - 1) - (SIM800_MAX_DELAY \div 2)}

InitWrap ==
    /\ wire = IdleWire
    /\ modem = ZeroModem
    /\ main = ZeroMain
    /\ tick \in WrapStarts
    /\ cfg \in [build : {"reload"}, app : {"weak"}, eol : {"LF", "CRLF"},
                blank : {FALSE}, notify : {FALSE}, indices : {{3}},
                bodies : {{S_HELLO}}]
    /\ handle = Receiving.h
    /\ env = Receiving.e
    /\ notifIndex = NoNotifIndex

\* The modem answers or stays silent while the ticks pass.
NextWrap ==
    \/ WireIdle /\ \E op \in SyncOps : Call(op)
    \/ WireIdle /\ Send
    \/ WireIdle /\ WaitDone
    \/ WireIdle /\ WaitTimeout
    \/ WireIdle /\ TimeoutReturn
    \/ WireIdle /\ Check
    \/ WireIdle /\ \E d \in TickSteps : Tick(d)
    \/ WireIdle /\ ModemAnswer
    \/ ModemSendLine
    \/ RxLine

SpecWrap == InitWrap /\ [][NextWrap]_vars

---------------------------------------------------------------------------
(* A reply that comes after its command timed out *)

\* Reception is on; the application enables the SMS notifications after its
\* command.
InitLate ==
    /\ wire = IdleWire
    /\ modem = ZeroModem
    /\ main = ZeroMain
    /\ tick = 0
    /\ cfg \in [build : {"reload"}, app : {"weak", "readme"}, eol : {"LF", "CRLF"},
                blank : {FALSE}, notify : {FALSE}, indices : {{3}},
                bodies : {{S_HELLO}}]
    /\ handle = Receiving.h
    /\ env = Receiving.e
    /\ notifIndex = NoNotifIndex

\* The modem answers at any time, also after wait_for_state gave up.
NextLate ==
    \/ WireIdle /\ \E op \in SyncOps : Call(op)
    \/ WireIdle /\ Send
    \/ WireIdle /\ WaitDone
    \/ WireIdle /\ WaitTimeout
    \/ WireIdle /\ TimeoutReturn
    \/ WireIdle /\ Check
    \/ WireIdle /\ Tick(SIM800_MAX_DELAY + 1)
    \/ WireIdle /\ Notifications(TRUE)
    \/ WireIdle /\ ModemAnswer
    \/ ModemSendLine
    \/ RxLine

SpecLate == InitLate /\ [][NextLate]_vars

\* The driver after a command that timed out: wait_for_state gave up, the
\* slot was released (the handle is as before the call), and the modem has
\* the command and has not answered it yet.
InitStale ==
    /\ wire = IdleWire
    /\ \E op \in SyncOps :
           modem = [ZeroModem EXCEPT !.got = <<[cmd |-> Commands[op].cmd, arg |-> 0]>>]
    /\ main = ZeroMain
    /\ tick = 0
    /\ cfg \in [build : {"reload"}, app : {"weak"}, eol : {"LF", "CRLF"},
                blank : {FALSE}, notify : {FALSE}, indices : {{3}},
                bodies : {{S_HELLO}}]
    /\ handle = Receiving.h
    /\ env = Receiving.e
    /\ notifIndex = NoNotifIndex

SpecStale == InitStale /\ [][NextLate]_vars

---------------------------------------------------------------------------
(* Replies framed as the modem frames them, with an empty line before the
   information line and before the status line *)

InitBlank ==
    /\ handle = Notified.w.h
    /\ env = Notified.w.e
    /\ notifIndex = Notified.index
    /\ wire = IdleWire
    /\ modem = ZeroModem
    /\ main = ZeroMain
    /\ tick = 0
    /\ cfg \in [build : {"reload"}, app : {"weak", "readme"}, eol : {"LF", "CRLF"},
                blank : {TRUE}, notify : {TRUE}, indices : {NotifIndices},
                bodies : {SmsBodies}]

SpecBlank == InitBlank /\ [][NextSms]_vars

---------------------------------------------------------------------------
(* Commands on a table that is full or nearly full *)

\* what a SIM800_GetStatus call that returned SIM800_OK leaves in its slot
LeftBehind(c) ==
    [code |-> S_DUMMY, code_length |-> 5, data |-> S_OK \o Eol(c),
     state |-> SIM800_ReceivedStatus, handle |-> NULL]

\* the receiving handle after n such calls
Crowded(n, c) ==
    [Receiving.h EXCEPT
        !.expected_codes = [i \in Slots |-> IF i < n THEN LeftBehind(c) ELSE ZeroCode],
        !.expected_codes_count = n,
        !.curProccesPacket_index = n - 1]

\* one slot is Free, or none
Crowds == {EXPECTED_CODES_MAX_COUNT - 1, EXPECTED_CODES_MAX_COUNT}

InitFull ==
    /\ cfg \in [build : {"reload"}, app : {"weak"}, eol : {"LF", "CRLF"},
                blank : {FALSE}, notify : {FALSE}, indices : {{}},
                bodies : {{S_HELLO}}]
    /\ \E n \in Crowds : handle = Crowded(n, cfg)
    /\ env = Receiving.e
    /\ notifIndex = NoNotifIndex
    /\ wire = IdleWire
    /\ modem = ZeroModem
    /\ main = ZeroMain
    /\ tick = 0

NextFull ==
    \/ WireIdle /\ \E op \in SyncOps : Call(op)
    \/ WireIdle /\ \E k \in RequestIndices : RequestSms(k)
    \/ WireIdle /\ \E enordi \in BOOLEAN : Notifications(enordi)
    \/ WireIdle /\ Send
    \/ WireIdle /\ WaitDone
    \/ WireIdle /\ WaitStray
    \/ WireIdle /\ WaitTimeout
    \/ WireIdle /\ TimeoutReturn
    \/ WireIdle /\ Check
    \/ WireIdle /\ CheckStray
    \/ WireIdle /\ Tick(SIM800_MAX_DELAY + 1)
    \/ WireIdle /\ ModemAnswer
    \/ ModemSendLine
    \/ RxLine

SpecFull == InitFull /\ [][NextFull]_vars

---------------------------------------------------------------------------
(* add_pending_message, statement by statement, under line delivery *)

\* The caller context runs add_pending_message(handle, Commands[op].code,
\* NULL) one statement at a time; SIM800_MessageHandler, called from the
\* receive interrupt, runs between any two of them.  main.index is the loop
\* variable i, main.arg the value of expected_codes_count loaded by the ++.

\* one statement of the caller: from pc to next, changing the handle to h
AddStatement(pc, next, h) ==
    /\ Running
    /\ main.pc = pc
    /\ handle' = h
    /\ main' = [main EXCEPT !.pc = next]
    /\ UNCHANGED <<notifIndex, env, wire, modem, tick, cfg>>

\* the call; strlen(code) is not above CODE_MAX_LENGTH for any command
AddEnter(op) ==
    /\ Running
    /\ main.pc = "idle" /\ main.calls < MaxCalls
    /\ main' = [main EXCEPT !.pc = "add_test", !.op = op, !.index = 0,
                            !.ret = NoResult, !.calls = @ + 1]
    /\ UNCHANGED <<handle, notifIndex, env, wire, modem, tick, cfg>>

\* i < EXPECTED_CODES_MAX_COUNT and
\* if (handle->expected_codes[i].state == SIM800_DoesntExpects), else i++
AddTest ==
    /\ Running
    /\ main.pc = "add_test"
    /\ main' = IF main.index >= EXPECTED_CODES_MAX_COUNT
               THEN [main EXCEPT !.pc = "added", !.index = AddFailed]
               ELSE IF handle.expected_codes[main.index].state = SIM800_DoesntExpects
               THEN [main EXCEPT !.pc = "add_code"]
               ELSE [main EXCEPT !.index = @ + 1]
    /\ UNCHANGED <<handle, notifIndex, env, wire, modem, tick, cfg>>

\* strcpy(handle->expected_codes[i].code, code)
AddCode ==
    AddStatement("add_code", "add_length",
        [handle EXCEPT !.expected_codes[main.index].code = Commands[main.op].code])

\* handle->expected_codes[i].code_length = code_len
AddLength ==
    AddStatement("add_length", "add_handle",
        [handle EXCEPT !.expected_codes[main.index].code_length =
                           Len(Commands[main.op].code)])

\* handle->expected_codes[i].handle = messageHandler
AddHandle ==
    AddStatement("add_handle", "add_state",
        [handle EXCEPT !.expected_codes[main.index].handle = NULL])

\* handle->expected_codes[i].state = SIM800_WaitingFor
AddState ==
    AddStatement("add_state", "add_load",
        [handle EXCEPT !.expected_codes[main.index].state = SIM800_WaitingFor])

\* handle->expected_codes_count++: the load
AddLoad ==
    /\ Running
    /\ main.pc = "add_load"
    /\ main' = [main EXCEPT !.pc = "add_store", !.arg = handle.expected_codes_count]
    /\ UNCHANGED <<handle, notifIndex, env, wire, modem, tick, cfg>>

\* handle->expected_codes_count++: the store
AddStore ==
    AddStatement("add_store", "add_cur",
        [handle EXCEPT !.expected_codes_count = U32Inc(main.arg)])

\* handle->curProccesPacket_index = i; return i
AddCur ==
    AddStatement("add_cur", "added",
        [handle EXCEPT !.curProccesPacket_index = main.index])

\* the README's application with notifications enabled
InitRace ==
    /\ handle = Notified.w.h
    /\ env = Notified.w.e
    /\ notifIndex = Notified.index
    /\ wire = IdleWire
    /\ modem = ZeroModem
    /\ main = ZeroMain
    /\ tick = 0
    /\ cfg \in [build : {"reload"}, app : {"readme"}, eol : {"LF", "CRLF"},
                blank : {FALSE}, notify : {TRUE}, indices : {{3}},
                bodies : {{S_HELLO}}]

NextRace ==
    \/ WireIdle /\ \E op \in SyncOps : AddEnter(op)
    \/ WireIdle /\ AddTest
    \/ WireIdle /\ AddCode
    \/ WireIdle /\ AddLength
    \/ WireIdle /\ AddHandle
    \/ WireIdle /\ AddState
    \/ WireIdle /\ AddLoad
    \/ WireIdle /\ AddStore
    \/ WireIdle /\ AddCur
    \/ ModemNotify
    \/ RxLine

SpecRace == InitRace /\ [][NextRace]_vars

\* the same, with the modem answering the command of the callback
NextSkip ==
    \/ NextRace
    \/ WireIdle /\ ModemAnswer
    \/ ModemSendLine

SpecSkip == InitRace /\ [][NextSkip]_vars

---------------------------------------------------------------------------
(* Reception switched on and off while lines arrive *)

InitReception ==
    /\ handle = ZeroHandle
    /\ env = ZeroEnv
    /\ notifIndex = NoNotifIndex
    /\ wire = IdleWire
    /\ modem = ZeroModem
    /\ main = ZeroMain
    /\ tick = 0
    /\ cfg \in [build : {"reload"}, app : {"weak"}, eol : {"LF", "CRLF"},
                blank : {FALSE}, notify : {FALSE}, indices : {{}},
                bodies : {{}}]

\* the calls of SIM800_ManageReceiving fall between any two bytes
NextReception ==
    \/ \E enordi \in BOOLEAN : Reception(enordi)
    \/ ModemNoise({<<>>}, {1, 2})
    \/ RxByte

SpecReception == InitReception /\ [][NextReception]_vars

---------------------------------------------------------------------------
(* Claims *)

\* the step in which the last byte of the line on the wire is handed to
\* SIM800_MessageHandler
Delivered ==
    /\ env.listening
    /\ wire'.line = wire.line
    /\ wire'.pos > wire.pos
    /\ wire'.pos = Len(wire.line)

\* the WaitingFor slots whose code the line starts with
Matching(h, line) ==
    {i \in Slots : /\ h.expected_codes[i].state = SIM800_WaitingFor
                   /\ Take(line, h.expected_codes[i].code_length) =
                          h.expected_codes[i].code}

\* C1: one line is dispatched per '\n' byte and none by another byte; the
\* dispatched line is the bytes received since the previous '\n', cut to the
\* capacity of rxBuffer when they are more and not altered otherwise; rxCounter
\* is 0 after each completed line.
C1_LineAssembler ==
    /\ (wire.pos > 0 /\ ~WireIdle) => env.dispatched = NoLine
    /\ (wire.pos > 0 /\ WireIdle) =>
          /\ handle.rxCounter = 0
          /\ IF Len(wire.line) <= RX_BUFFER_LENGTH - 1
             THEN env.dispatched = wire.line
             ELSE env.dispatched \in
                      {Take(wire.line, RX_BUFFER_LENGTH - 1),
                       Take(wire.line, RX_BUFFER_LENGTH - 2) \o <<LF>>,
                       Take(wire.line, RX_BUFFER_LENGTH),
                       Take(wire.line, RX_BUFFER_LENGTH - 1) \o <<LF>>}

\* C9: every index of rxBuffer that SIM800_MessageHandler writes is below
\* RX_BUFFER_LENGTH, and no write of a line end lands outside rxBuffer.
C9_WritesInside ==
    /\ \A i \in env.rxWrites : i >= 0 /\ i < RX_BUFFER_LENGTH
    /\ "rxBuffer" \notin env.oob

\* C10: the data of every slot fits in data[] together with its end marker,
\* and no copy into data[] writes behind it.
C10_DataFits ==
    /\ \A i \in Slots :
           Len(handle.expected_codes[i].data) < RECEIVE_DATA_MAX_LENGTH
    /\ "data" \notin env.oob

\* what C3 asks of the step that delivers a line which is no status line
C3_RouteStep ==
    (Delivered /\ ~IsStatusLine(wire.line)) =>
        \A i \in Matching(handle, wire.line) :
            IF \E j \in Matching(handle, wire.line) : j < i
            THEN handle'.expected_codes[i] = handle.expected_codes[i]
            ELSE /\ handle'.expected_codes[i].data = wire.line
                 /\ handle'.expected_codes[i].handle = NULL =>
                        handle'.expected_codes[i].state = SIM800_Received

\* C3: a line that is no status line goes to the lowest WaitingFor slot whose
\* code it starts with, and the other slots whose code it starts with keep
\* their state and their data.
C3_OneSlot == [][C3_RouteStep]_vars

\* what C5 asks of the step that delivers a +CMTI line
C5_NotificationStep ==
    (Delivered /\ notifIndex \in Slots /\ Take(wire.line, 5) = S_CMTI) =>
        /\ \E k \in NotifIndices :
              /\ wire.line = S_CMTI_INFO(k) \o Eol(cfg)
              /\ env'.newSms = <<k>>
        /\ handle'.expected_codes[notifIndex].state = SIM800_WaitingFor
        /\ handle'.expected_codes[notifIndex].code = S_CMTI
        /\ handle'.expected_codes[notifIndex].handle = CMTI_HANDLER
        /\ handle'.expected_codes_count =
               handle.expected_codes_count
                   + Cardinality(NonFree(handle') \ NonFree(handle))

\* C5: with the +CMTI slot registered, each delivered +CMTI line calls
\* SIM800_NewSMSNotificationCallBack once, with the index of that line, and
\* leaves the slot WaitingFor with its code and handler; expected_codes_count
\* changes only by what the callback registers.
C5_Notification == [][C5_NotificationStep]_vars

\* the second notification, with an index other than the first's, was delivered
C5_Witness ==
    /\ modem.notifs = 2 /\ WireIdle
    /\ wire.line = S_CMTI_INFO(5) \o Eol(cfg)
    /\ env.newSms = <<5>>
    /\ handle.expected_codes[notifIndex].data = wire.line
    /\ handle.expected_codes[notifIndex].state = SIM800_WaitingFor

\* the step that delivers the OK of a +CMGR reply made of the header line and
\* one body line; text(body) is the text expected of the callback
C6_ReplyStep(text(_)) ==
    \A body \in SmsBodies :
        (/\ Delivered
         /\ wire.line = S_OK \o Eol(cfg)
         /\ handle.expected_codes[handle.curProccesPacket_index] =
                [code |-> S_CMGR, code_length |-> 5,
                 data |-> S_CMGR_INFO \o Eol(cfg) \o body \o Eol(cfg),
                 state |-> SIM800_Received, handle |-> CMGR_HANDLER])
        => /\ env'.rcvdSms = <<[sender |-> S_SENDER, text |-> text(body)]>>
           /\ handle'.expected_codes[handle.curProccesPacket_index] = ZeroCode

C6_WholeLine(body) == body

C6_LessTwo(body) == Take(body \o Eol(cfg), Len(body \o Eol(cfg)) - 2)

C4_RegisterStep ==
    main'.op = "add_pending_message" =>
        LET free == Slots \ NonFree(handle)
            ret == main'.ret
        IN /\ ret = AddFailed <=> (free = {} \/ Len(main'.code) > CODE_MAX_LENGTH)
           /\ ret # AddFailed =>
                 /\ ret \in free /\ \A j \in free : ret <= j
                 /\ handle'.expected_codes[ret].state = SIM800_WaitingFor
                 /\ handle'.expected_codes[ret].code = main'.code
                 /\ handle'.curProccesPacket_index = ret

\* C4: under any sequence of add_pending_message and remove_expected_code
\* calls at most EXPECTED_CODES_MAX_COUNT slots are not Free, and
\* add_pending_message returns 0xFF exactly when no slot is Free or the code
\* is longer than CODE_MAX_LENGTH; otherwise it returns the lowest Free slot,
\* which is then WaitingFor and the current slot.
C4_RegisterRelease ==
    /\ [](Cardinality(NonFree(handle)) <= EXPECTED_CODES_MAX_COUNT)
    /\ [][C4_RegisterStep]_vars

\* a code that fits was refused because the table is full, and a code of
\* CODE_MAX_LENGTH characters is registered
C4_Witness ==
    /\ main.op = "add_pending_message" /\ main.ret = AddFailed
    /\ main.code = Code10
    /\ NonFree(handle) = Slots

\* C2: once the status line of the caller's command is delivered, the slot
\* the caller waits on is ReceivedStatus (so wait_for_state returns SIM800_OK),
\* whatever was delivered between the registration and the status line.
C2_StatusCloses ==
    (/\ main.pc = "wait"
     /\ modem.taken >= main.arg /\ modem.out = <<>> /\ WireIdle)
    => handle.expected_codes[main.index].state = SIM800_ReceivedStatus

\* what C7 asks of the steps of SIM800_GetBatteryInfo and of the delivery of
\* the OK line of its reply
C7_BatteryStep ==
    /\ (/\ Delivered /\ wire.line = S_OK \o Eol(cfg)
        /\ main.op = "SIM800_GetBatteryInfo" /\ main.pc = "wait"
        /\ handle.curProccesPacket_index = main.index
        /\ handle.expected_codes[main.index] =
               [code |-> S_CBC, code_length |-> 4,
                data |-> S_CBC_INFO \o Eol(cfg),
                state |-> SIM800_Received, handle |-> NULL])
       => handle'.expected_codes[main.index] =
               [code |-> S_CBC, code_length |-> 4,
                data |-> S_CBC_INFO \o Eol(cfg) \o S_OK \o Eol(cfg),
                state |-> SIM800_ReceivedStatus, handle |-> NULL]
    /\ (/\ main.op = "SIM800_GetBatteryInfo"
        /\ main.pc = "check" /\ main'.pc = "idle"
        /\ handle.expected_codes[main.index].data =
               S_CBC_INFO \o Eol(cfg) \o S_OK \o Eol(cfg))
       => /\ main'.ret = SIM800_OK
          /\ main'.battery = [charge_status |-> 1, conection_level |-> 80,
                              battery_level |-> 4100]

\* C7: with +CBC registered, the line "+CBC: 1,80,4100" and then the line "OK"
\* leave the slot ReceivedStatus with the two lines as its data, and
\* SIM800_GetBatteryInfo returns SIM800_OK with charge_status 1,
\* conection_level 80 and battery_level 4100.
C7_Battery == [][C7_BatteryStep]_vars

\* SIM800_GetBatteryInfo returned the values of the reply
C7_Witness ==
    /\ main.op = "SIM800_GetBatteryInfo" /\ main.pc = "idle"
    /\ main.ret = SIM800_OK
    /\ main.battery = [charge_status |-> 1, conection_level |-> 80,
                       battery_level |-> 4100]

\* the slot of the waiting caller as add_pending_message left it
C8_Untouched ==
    main.pc \in {"wait", "timeout"} =>
        handle.expected_codes[main.index] =
            [code |-> Commands[main.op].code,
             code_length |-> Len(Commands[main.op].code),
             data |-> <<>>, state |-> SIM800_WaitingFor, handle |-> NULL]

\* wait_for_state returns once more than SIM800_MAX_DELAY ticks have passed
C8_Returns ==
    (main.pc = "wait" /\ tick - main.tickStart > SIM800_MAX_DELAY)
    => ENABLED WaitTimeout

\* wait_for_state returns SIM800_TIMEOUT after more than SIM800_MAX_DELAY
\* ticks only and changes nothing; the release that follows frees the slot
C8_TimeoutStep ==
    /\ (main.pc = "wait" /\ main'.pc = "timeout")
       => /\ tick - main.tickStart > SIM800_MAX_DELAY
          /\ handle' = handle
    /\ (main.pc = "timeout" /\ main'.pc = "idle")
       => /\ main'.ret = Failure(main.op, SIM800_TIMEOUT)
          /\ handle'.expected_codes[main.index] = ZeroCode

\* C8: a slot that gets no line that starts with its code and no status line
\* stays WaitingFor with its code, data and handler while the caller waits
\* and when wait_for_state returns SIM800_TIMEOUT, which it does after more
\* than SIM800_MAX_DELAY ticks; the slot is Free only after the release that
\* follows.
C8_Timeout ==
    /\ [](C8_Untouched /\ C8_Returns)
    /\ [][C8_TimeoutStep]_vars

\* wait_for_state returned SIM800_TIMEOUT one tick behind the delay, after a
\* notification was delivered
C8_Witness ==
    /\ main.pc = "timeout"
    /\ tick - main.tickStart = SIM800_MAX_DELAY + 1
    /\ modem.notifs > 0 /\ WireIdle

\* C11: when a synchronous command has returned, no slot is left over from it:
\* no slot holds the code it registered.
C11_SlotsReleased ==
    (main.pc = "idle" /\ main.op \in SyncOps /\ main.index \in Slots)
    => \A i \in Slots : handle.expected_codes[i].code # Commands[main.op].code

\* the table but for slot i, which is Free
FreeAt(codes, i) == [codes EXCEPT ![i] = ZeroCode]

\* what C12 asks of the steps of a command that registered a slot
C12_SendStep ==
    \* the registration: the slot index was Free, nothing else changes
    /\ (main.pc = "idle" /\ main'.pc = "send" /\ main'.index \in Slots)
       => /\ handle.expected_codes[main'.index] = ZeroCode
          /\ FreeAt(handle'.expected_codes, main'.index) = handle.expected_codes
          /\ handle'.expected_codes_count = handle.expected_codes_count + 1
    \* HAL_UART_Transmit_IT refused the command
    /\ (main.pc = "send" /\ main'.pc = "idle" /\ main.index \in Slots)
       => /\ main'.ret = Failure(main.op, SIM800_ERROR)
          /\ modem' = modem
          /\ handle'.expected_codes = FreeAt(handle.expected_codes, main.index)
          /\ handle'.expected_codes_count = handle.expected_codes_count - 1
    \* SIM800_RequestSMSMessage, whose send was refused
    /\ (/\ main'.op = "SIM800_RequestSMSMessage" /\ main'.calls = main.calls + 1
        /\ main'.ret = SIM800_ERROR /\ FirstFree(handle) \in Slots)
       => /\ modem' = modem
          /\ handle'.expected_codes = handle.expected_codes
          /\ handle'.expected_codes_count = handle.expected_codes_count

\* C12: when the send of a command that registered a slot fails, the command
\* returns its error value, the slot it registered is Free again and
\* expected_codes_count is what it was before the call; no other slot changed.
C12_SendFailure == [][C12_SendStep]_vars

\* the send of SIM800_GetBatteryInfo, which had registered the last slot, was
\* refused
C12_Witness ==
    /\ main.op = "SIM800_GetBatteryInfo" /\ main.pc = "idle"
    /\ main.index = EXPECTED_CODES_MAX_COUNT - 1
    /\ main.ret = SIM800_ERROR
    /\ modem.got = <<>> /\ modem.taken = 0
    /\ handle.expected_codes_count = EXPECTED_CODES_MAX_COUNT - 1
    /\ handle.expected_codes[main.index] = ZeroCode

\* what C13 asks of the step a synchronous command takes after
\* add_pending_message returned 0xFF
C13_RefusedStep ==
    (/\ main.op \in SyncOps /\ main.pc # "idle"
     /\ main.index = AddFailed /\ main' # main)
    => /\ main'.pc = "idle"
       /\ main'.ret = Failure(main.op, SIM800_ERROR)
       /\ handle' = handle
       /\ modem' = modem
       /\ env'.oob = env.oob

\* C13: a synchronous command whose registration failed returns a failure and
\* leaves the table and expected_codes_count alone; it sends nothing, and it
\* does not wait on, read or release slot 0xFF.
C13_Refused == [][C13_RefusedStep]_vars

\* C16, ENABLE: SIM800_ManageSMSNotifications(ENABLE) returned SIM800_OK only
\* with a +CMTI slot registered whose handler is cmti_handler, and no more
\* than one slot holds +CMTI.
C16_EnableRegisters ==
    /\ (/\ main.op = "SIM800_ManageSMSNotifications" /\ main.arg = 1
        /\ main.ret = SIM800_OK)
       => \E i \in Slots :
              /\ handle.expected_codes[i].code = S_CMTI
              /\ handle.expected_codes[i].handle = CMTI_HANDLER
              /\ handle.expected_codes[i].state # SIM800_DoesntExpects
    /\ Cardinality({i \in Slots : handle.expected_codes[i].code = S_CMTI}) <= 1

\* C14: after SIM800_ManageReceiving(ENABLE) returned SIM800_OK the handle is
\* in SIM800_Receives, and after SIM800_ManageReceiving(DISABLE) it is in
\* SIM800_DoesntReceive, whatever the state before the call.
C14_ReceivingAsAsked ==
    (main.op = "SIM800_ManageReceiving" /\ main.ret = SIM800_OK)
    => handle.recStatus = IF main.arg = 1 THEN SIM800_Receives
                          ELSE SIM800_DoesntReceive

\* what C15 asks of the step in which a byte arrives and SIM800_MessageHandler
\* is called for it
C15_RearmStep ==
    (env.listening /\ wire'.line = wire.line /\ wire'.pos = wire.pos + 1)
    => /\ handle.recStatus = SIM800_Receives => env'.armed = 1
       /\ (/\ main.op = "SIM800_ManageReceiving" /\ main.arg = 0
           /\ handle.recStatus = SIM800_DoesntReceive) => env'.armed = 0

\* C15: SIM800_MessageHandler calls HAL_UART_Receive_IT once for each byte
\* while reception is enabled, and not at all once
\* SIM800_ManageReceiving(DISABLE) has disabled it, for the '\n' and for a
\* byte in the middle of a line.
C15_Rearm == [][C15_RearmStep]_vars

\* C17: when add_pending_message has returned in the caller context and one
\* notification was delivered, whose callback's SIM800_RequestSMSMessage was
\* sent, the two registrations hold two slots: the caller's slot has its code
\* and no handler, another slot has +CMGR and cmgr_handler, and
\* expected_codes_count has grown by two.
C17_TwoSlots ==
    (/\ main.pc = "added" /\ main.index \in Slots
     /\ modem.notifs = 1 /\ WireIdle /\ Len(modem.got) = 1)
    => /\ handle.expected_codes[main.index] =
              [code |-> Commands[main.op].code,
               code_length |-> Len(Commands[main.op].code),
               data |-> <<>>, state |-> SIM800_WaitingFor, handle |-> NULL]
       /\ \E j \in Slots \ {main.index} :
              handle.expected_codes[j] =
                  [code |-> S_CMGR, code_length |-> 5, data |-> <<>>,
                   state |-> SIM800_WaitingFor, handle |-> CMGR_HANDLER]
       /\ handle.expected_codes_count = Notified.w.h.expected_codes_count + 2

\* the counter passed 0xFFFFFFFF since wait_for_state read tickStart
C18_Wrapped == main.tickStart < 0 /\ tick >= 0

\* The ticks passed since wait_for_state was called: the counter started no
\* more than SIM800_MAX_DELAY before its wrap, and as int32_t it passes from
\* -1 to 0 there, so that the difference of the integers is the time passed.
C18_Elapsed == tick - main.tickStart

C18_WaitStep ==
    /\ (main.pc = "wait" /\ main'.pc = "check")
       => /\ handle.expected_codes[main.index].state = SIM800_ReceivedStatus
          /\ handle' = handle
    /\ (main.pc = "wait" /\ main'.pc = "timeout")
       => /\ C18_Elapsed > SIM800_MAX_DELAY
          /\ handle.expected_codes[main.index].state # SIM800_ReceivedStatus
          /\ handle' = handle

\* C18: wait_for_state returns SIM800_OK only when it saw the slot in the
\* state waited for, and SIM800_TIMEOUT only when more than SIM800_MAX_DELAY
\* ticks passed since it was called, also when the 32-bit tick counter
\* wrapped around to 0 during the wait.
C18_Wait == [][C18_WaitStep]_vars

\* wait_for_state returned SIM800_TIMEOUT one tick behind the delay, the
\* counter having wrapped around during the wait
C18_Witness ==
    /\ main.pc = "timeout"
    /\ C18_Wrapped
    /\ C18_Elapsed = SIM800_MAX_DELAY + 1

\* a delivered line leaves the slots that are Free as they are
C19_FreeStep ==
    Delivered =>
        \A i \in Slots :
            handle.expected_codes[i].state = SIM800_DoesntExpects
            => /\ handle'.expected_codes[i].state = SIM800_DoesntExpects
               /\ handle'.expected_codes[i].data = handle.expected_codes[i].data
               /\ handle'.expected_codes[i].handle = handle.expected_codes[i].handle

\* C19: a delivered line changes the state, data and handler of no Free
\* (SIM800_DoesntExpects) slot: a slot leaves that state through
\* add_pending_message only.
C19_FreeStays == [][C19_FreeStep]_vars

\* a slot becomes SIM800_ReceivedStatus in the delivery of a status line only,
\* and only the slot that is current then
C20_ClosedOnly ==
    \A i \in Slots :
        (/\ handle.expected_codes[i].state # SIM800_ReceivedStatus
         /\ handle'.expected_codes[i].state = SIM800_ReceivedStatus)
        => /\ Delivered /\ IsStatusLine(wire.line)
           /\ i = handle.curProccesPacket_index

\* the delivery of a status line leaves the slots that are not current, and
\* the current index, as they are
C20_Frame ==
    (Delivered /\ IsStatusLine(wire.line))
    => /\ handle'.curProccesPacket_index = handle.curProccesPacket_index
       /\ \A i \in Slots \ {handle.curProccesPacket_index} :
              /\ handle'.expected_codes[i].state = handle.expected_codes[i].state
              /\ handle'.expected_codes[i].data = handle.expected_codes[i].data
              /\ handle'.expected_codes[i].code = handle.expected_codes[i].code

\* C20: a slot becomes SIM800_ReceivedStatus only when a line that starts
\* with "OK" or "ER" is delivered while it is the current slot, and such a
\* line, whatever code it starts with, leaves the state, data and code of
\* every other slot and curProccesPacket_index unchanged.
C20_StatusLine == [][C20_ClosedOnly /\ C20_Frame]_vars

\* what C21 asks of the step that delivers a line which is no status line and
\* starts with the code of no WaitingFor slot: the line is appended, within
\* data[], to the data of the current slot when that slot is Received and its
\* data does not start with "\r\n"; nothing else of the table changes
C21_Step ==
    (Delivered /\ ~IsStatusLine(wire.line) /\ Matching(handle, wire.line) = {})
    => LET cur == handle.curProccesPacket_index
           e == handle.expected_codes[cur]
           appends == /\ e.state = SIM800_Received
                      /\ Take(e.data, 2) # <<CR, LF>>
       IN /\ handle'.curProccesPacket_index = cur
          /\ handle'.expected_codes_count = handle.expected_codes_count
          /\ env'.oob = env.oob
          /\ handle'.expected_codes =
                 IF appends
                 THEN [handle.expected_codes EXCEPT
                          ![cur].data = Take(@ \o wire.line, RECEIVE_DATA_MAX_LENGTH)]
                 ELSE handle.expected_codes

\* C21: a completed line that is no status line and starts with the code of
\* no WaitingFor slot changes the table only by being appended to the data of
\* the current slot, and only when that slot is Received and its data does
\* not start with "\r\n"; otherwise it is dropped and no slot, nor
\* curProccesPacket_index or expected_codes_count, changes.
C21_OtherLine == [][C21_Step]_vars

\* C22: expected_codes_count is the number of slots whose state is not
\* SIM800_DoesntExpects, and it is never below 0 (as size_t: never wrapped
\* around).
C22_Count ==
    /\ handle.expected_codes_count =
           Cardinality({i \in Slots :
                           handle.expected_codes[i].state # SIM800_DoesntExpects})
    /\ handle.expected_codes_count >= 0

\* what C23 asks of the step that delivers a line which is no status line:
\* the loop reaches every WaitingFor slot whose code the line starts with, and
\* the line is copied into its data
C23_ScanStep ==
    (Delivered /\ ~IsStatusLine(wire.line)) =>
        \A i \in Matching(handle, wire.line) :
            handle'.expected_codes[i].data = wire.line

\* C23: the loop over expected_codes, which is left once counter reaches
\* expected_codes_count, visits every WaitingFor slot: it matches the slots a
\* loop over all EXPECTED_CODES_MAX_COUNT slots matches and skips no
\* WaitingFor slot registered later.
C23_ScanComplete == [][C23_ScanStep]_vars

\* SIM800_RcvdSMSCallBack is called by the delivery of a status line only,
\* once, for the current slot, a +CMGR slot, which is released in that step
C24_CallbackStep ==
    /\ ~Delivered => env'.rcvdSms = env.rcvdSms
    /\ (Delivered /\ env'.rcvdSms # <<>>) =>
        /\ IsStatusLine(wire.line)
        /\ Len(env'.rcvdSms) = 1
        /\ handle.expected_codes[handle.curProccesPacket_index].handle = CMGR_HANDLER
        /\ handle'.expected_codes[handle.curProccesPacket_index] = ZeroCode
        /\ handle'.expected_codes_count = U32Dec(handle.expected_codes_count)

\* the modem answered every AT+CMGR and every line of its answers was
\* delivered
C24_AllAnswered == WireIdle /\ modem.got = <<>> /\ modem.out = <<>>

\* C24: SIM800_RcvdSMSCallBack is called at most once for a request, by the
\* status line that closes the request's +CMGR slot and not by the line that
\* starts with +CMGR, and the slot is released right after it; each of two
\* pending requests gets its callback and its release, so that no +CMGR slot
\* is left when every request was answered.
C24_Requests ==
    /\ [][C24_CallbackStep]_vars
    /\ [](C24_AllAnswered =>
             \A i \in Slots : handle.expected_codes[i].code # S_CMGR)

\* what C25 asks of the step that delivers a line
C25_Step ==
    Delivered =>
        IF Take(wire.line, 5) = S_CMTI
        THEN Len(env'.newSms) <= 1
        ELSE /\ env'.newSms = <<>>
             /\ notifIndex \in Slots =>
                    handle'.expected_codes[notifIndex].state =
                        handle.expected_codes[notifIndex].state

\* C25: SIM800_NewSMSNotificationCallBack is called by the delivery of a line
\* that starts with +CMTI only, once per line; a status line or another line
\* delivered while the +CMTI slot is the current slot does not call it and
\* does not change the state of the +CMTI slot.
C25_NotifiedOnce == [][C25_Step]_vars

\* while wait_for_state runs, a step that changes the handle is the delivery
\* of a line, and a step of the waiter (it returns, or ticks pass while it
\* loops) leaves the handle as it is
C26_WaiterStep ==
    main.pc = "wait" =>
        /\ handle' # handle => Delivered
        /\ (main' # main \/ tick' # tick) => handle' = handle

\* C26: wait_for_state changes nothing in the handle: between its call and
\* its return no slot, nor expected_codes_count or curProccesPacket_index, is
\* changed by the waiter, only by the lines delivered meanwhile.
C26_WaiterReads == [][C26_WaiterStep]_vars

\* wait_for_state returned, SIM800_OK or SIM800_TIMEOUT, after lines were
\* delivered during the wait
C26_Witness ==
    /\ main.pc \in {"check", "timeout"}
    /\ main.index \in Slots
    /\ handle.expected_codes[main.index].data # <<>>

\* C27: a synchronous command returns SIM800_OK only when the modem has
\* answered that command (main.arg is its number among the commands the
\* modem got): the late status line of an earlier command that timed out is
\* not taken for its reply.
C27_OwnReply ==
    (/\ main.pc = "idle" /\ main.ret = SIM800_OK
     /\ main.op \in SyncOps \ {"SIM800_GetNetworkRegStatus"})
    => modem.taken >= main.arg

\* the slot add_pending_message is writing in the caller context, between its
\* test of the state and its assignment of SIM800_WaitingFor
C28_BeingWritten(i) ==
    /\ main.pc \in {"add_code", "add_length", "add_handle", "add_state"}
    /\ main.index = i

\* every Free slot but the one being written is cleared
C28_Cleared ==
    \A i \in Slots :
        (/\ handle.expected_codes[i].state = SIM800_DoesntExpects
         /\ ~C28_BeingWritten(i))
        => /\ handle.expected_codes[i].data = <<>>
           /\ handle.expected_codes[i].code_length = 0
           /\ handle.expected_codes[i].handle = NULL

\* the step in which add_pending_message returns a slot to a command
C28_HandOut ==
    (/\ main.pc \notin {"added", "send"} /\ main'.pc \in {"added", "send"}
     /\ main'.index \in Slots)
    => handle'.expected_codes[main'.index].data = <<>>

\* C28: every slot that is Free (SIM800_DoesntExpects), but the one
\* add_pending_message is writing, has empty data, code length 0 and no
\* handler, and the slot add_pending_message hands out has empty data.
C28_FreeCleared == []C28_Cleared /\ [][C28_HandOut]_vars

====
